---------------------------- MODULE Spec2Model ----------------------------
(***************************************************************************)
(* The TLD list of image-downloader.py: tlds_load and tlds_update, the     *)
(* cache file they share, and the normalisation of the registry document.  *)
(*                                                                         *)
(* A text is a sequence of Unicode code points (naturals), so that the     *)
(* string operations of the code (splitlines, strip, lower, startswith,    *)
(* the idna codec, the text-mode file iteration, str.format) are computed  *)
(* on the characters rather than assumed.                                  *)
(*                                                                         *)
(* The control command of the plugin, on_command, with the two formats it  *)
(* sets, FMT_MESSAGE and FMT_ERROR.  Nothing in the file calls tlds_load   *)
(* or tlds_update, and on_command does not touch the cache file: the two   *)
(* parts are specified apart.                                              *)
(*   Spec      the calls of tlds_load and tlds_update, one at a time, the  *)
(*             formats being the defaults                                  *)
(*   FairSpec  Spec, a call in progress being run to its end               *)
(*   RaceSpec  two calls of tlds_update under way at once                  *)
(*   CmdSpec   the control commands, one after the other                   *)
(***************************************************************************)
EXTENDS Integers, Sequences, FiniteSets, TLC

(***************************************************************************)
(* Bounds of the model.                                                    *)
(***************************************************************************)
\* The registry documents have at most MaxLines lines.
MaxLines == 2

(***************************************************************************)
(* Strings.                                                                *)
(***************************************************************************)
\* "\n", what line 141 writes after each label and line 94 strips.
NL == <<10>>

\* "#", the comment mark of line 124.
COMMENT_MARK == <<35>>

\* "xn--", the prefix line 131 tests (the ACE prefix of the idna codec).
ACE_PREFIX == <<120, 110, 45, 45>>

\* The characters str.strip() removes, among the code points below 256.
IsSpace(ch) == ch \in {9, 10, 11, 12, 13, 28, 29, 30, 31, 32, 133, 160}

\* The line boundaries of str.splitlines().
IsLineBreak(ch) == ch \in {10, 11, 12, 13, 28, 29, 30, 133, 8232, 8233}

\* str.lower() on one character: ASCII and Latin-1 capitals.
LowerChar(ch) ==
    IF ch \in 65..90 THEN ch + 32
    ELSE IF ch \in 192..222 /\ ch # 215 THEN ch + 32
    ELSE ch

Lower(s) == [i \in 1..Len(s) |-> LowerChar(s[i])]

StartsWith(s, p) == Len(s) >= Len(p) /\ SubSeq(s, 1, Len(p)) = p

RECURSIVE LStrip(_)
LStrip(s) ==
    IF s # <<>> /\ IsSpace(Head(s)) THEN LStrip(Tail(s)) ELSE s

RECURSIVE RStrip(_)
RStrip(s) ==
    IF s # <<>> /\ IsSpace(s[Len(s)]) THEN RStrip(SubSeq(s, 1, Len(s) - 1)) ELSE s

\* str.strip()
Strip(s) == RStrip(LStrip(s))

\* str.splitlines(): "\r\n" is one boundary, and a text that ends with a
\* boundary has no empty last line.
RECURSIVE SplitFrom(_, _, _, _)
SplitFrom(s, i, cur, acc) ==
    IF i > Len(s) THEN (IF cur = <<>> THEN acc ELSE Append(acc, cur))
    ELSE IF s[i] = 13 /\ i < Len(s) /\ s[i + 1] = 10
         THEN SplitFrom(s, i + 2, <<>>, Append(acc, cur))
    ELSE IF IsLineBreak(s[i])
         THEN SplitFrom(s, i + 1, <<>>, Append(acc, cur))
    ELSE SplitFrom(s, i + 1, Append(cur, s[i]), acc)

SplitLines(s) == SplitFrom(s, 1, <<>>, <<>>)

RECURSIVE Concat(_)
Concat(ss) == IF ss = <<>> THEN <<>> ELSE Head(ss) \o Concat(Tail(ss))

(***************************************************************************)
(* tld.encode("ascii").decode("idna") of line 135: the punycode codec      *)
(* (RFC 3492, parameters base 36, tmin 1, tmax 26, skew 38, damp 700,      *)
(* initial bias 72, initial n 128) and the round trip the idna codec       *)
(* makes through ToASCII.  A result is [ok |-> TRUE, val |-> text] or      *)
(* [ok |-> FALSE, err |-> exception name].                                 *)
(***************************************************************************)
Ok(v) == [ok |-> TRUE, val |-> v]
Err(e) == [ok |-> FALSE, err |-> e]

IsAscii(s) == \A i \in 1..Len(s) : s[i] < 128

\* T(j, bias), with j counted from 0
PunyT(j, bias) ==
    LET res == 36 * (j + 1) - bias
    IN  IF res < 1 THEN 1 ELSE IF res > 26 THEN 26 ELSE res

RECURSIVE AdaptLoop(_, _)
AdaptLoop(delta, divisions) ==
    IF delta > 455 THEN AdaptLoop(delta \div 35, divisions + 36)
    ELSE divisions + ((36 * delta) \div (delta + 38))

\* adapt(delta, first, numchars)
Adapt(delta, first, numchars) ==
    LET d1 == IF first THEN delta \div 700 ELSE delta \div 2
    IN  AdaptLoop(d1 + (d1 \div numchars), 0)

\* The value of one extended digit; the text was lowercased by line 121 and
\* the codec compares it upper-cased: letters 0..25, digits 26..35, -1 for
\* anything else.
DigitValue(ch) ==
    IF ch \in 97..122 THEN ch - 97
    ELSE IF ch \in 65..90 THEN ch - 65
    ELSE IF ch \in 48..57 THEN ch - 22
    ELSE -1

\* decode_generalized_number: [ok, pos (the next position), val] or an error
RECURSIVE DecodeNumber(_, _, _, _, _, _)
DecodeNumber(ext, extpos, bias, result, w, j) ==
    IF extpos > Len(ext) THEN Err("UnicodeError")
    ELSE LET digit == DigitValue(ext[extpos])
             t == PunyT(j, bias)
         IN  IF digit < 0 THEN Err("UnicodeError")
             ELSE IF digit < t
                  THEN [ok |-> TRUE, pos |-> extpos + 1, val |-> result + digit * w]
             ELSE DecodeNumber(ext, extpos + 1, bias, result + digit * w,
                               w * (36 - t), j + 1)

\* insertion_sort; pos is the code's pos (from -1), extpos is 1-based
RECURSIVE InsertionSort(_, _, _, _, _, _)
InsertionSort(base, ext, char, pos, bias, extpos) ==
    IF extpos > Len(ext) THEN Ok(base)
    ELSE LET num == DecodeNumber(ext, extpos, bias, 0, 1, 0)
         IN  IF ~num.ok THEN num
             ELSE LET pos1 == pos + num.val + 1
                      char1 == char + (pos1 \div (Len(base) + 1))
                      pos2 == pos1 % (Len(base) + 1)
                      base1 == SubSeq(base, 1, pos2) \o <<char1>>
                                   \o SubSeq(base, pos2 + 1, Len(base))
                  IN  IF char1 > 1114111 THEN Err("UnicodeError")
                      ELSE InsertionSort(base1, ext, char1, pos2,
                                         Adapt(num.val, extpos = 1, Len(base1)),
                                         num.pos)

\* text.rfind(b"-"), 1-based, 0 when there is none
RECURSIVE RFind(_, _, _)
RFind(s, ch, i) ==
    IF i = 0 THEN 0 ELSE IF s[i] = ch THEN i ELSE RFind(s, ch, i - 1)

\* punycode_decode
PunycodeDecode(text) ==
    LET pos == RFind(text, 45, Len(text))
        base == IF pos = 0 THEN <<>> ELSE SubSeq(text, 1, pos - 1)
        ext == SubSeq(text, pos + 1, Len(text))
    IN  InsertionSort(base, ext, 128, -1, 72, 1)

\* digits[N] of the encoder
DigitChar(n) == IF n < 26 THEN 97 + n ELSE 22 + n

\* generate_generalized_integer
RECURSIVE GenerateInteger(_, _, _)
GenerateInteger(n, bias, j) ==
    LET t == PunyT(j, bias)
    IN  IF n < t THEN <<DigitChar(n)>>
        ELSE <<DigitChar(t + ((n - t) % (36 - t)))>>
                 \o GenerateInteger((n - t) \div (36 - t), bias, j + 1)

\* The encoder's main loop, in the form RFC 3492 section 6.3 gives it (the
\* codec's insertion_unsort and generate_integers compute the same deltas):
\* h characters are handled, every code point below n is handled.
RECURSIVE EncodeScan(_, _, _, _, _, _, _, _)
EncodeScan(input, k, n, delta, bias, h, b, out) ==
    IF k > Len(input) THEN [delta |-> delta, bias |-> bias, h |-> h, out |-> out]
    ELSE IF input[k] < n
         THEN EncodeScan(input, k + 1, n, delta + 1, bias, h, b, out)
    ELSE IF input[k] = n
         THEN EncodeScan(input, k + 1, n, 0, Adapt(delta, h = b, h + 1), h + 1, b,
                         out \o GenerateInteger(delta, bias, 0))
    ELSE EncodeScan(input, k + 1, n, delta, bias, h, b, out)

RECURSIVE EncodeLoop(_, _, _, _, _, _, _)
EncodeLoop(input, n, delta, bias, h, b, out) ==
    IF h >= Len(input) THEN out
    ELSE LET rest == {input[i] : i \in {x \in 1..Len(input) : input[x] >= n}}
             m == CHOOSE c \in rest : \A d \in rest : c <= d
             r == EncodeScan(input, 1, m, delta + (m - n) * (h + 1), bias, h, b, out)
         IN  EncodeLoop(input, m + 1, r.delta + 1, r.bias, r.h, b, r.out)

\* punycode_encode
PunycodeEncode(text) ==
    LET base == SelectSeq(text, LAMBDA c : c < 128)
        ext == EncodeLoop(text, 128, 0, 72, Len(base), Len(base), <<>>)
    IN  IF base # <<>> THEN base \o <<45>> \o ext ELSE ext

\* nameprep, for the code points below 256: the capitals are case folded,
\* and the C1 controls and the no-break space (which NFKC turns into a space,
\* so that the label no longer round-trips) are refused.
NamePrep(s) ==
    IF \E i \in 1..Len(s) : s[i] \in 128..160 THEN Err("UnicodeError")
    ELSE Ok(Lower(s))

\* The size check that ends ToASCII (step 8)
CheckSize(label) ==
    IF 0 < Len(label) /\ Len(label) < 64 THEN Ok(label) ELSE Err("UnicodeError")

\* ToASCII of encodings/idna.py
ToASCII(label) ==
    IF IsAscii(label) THEN CheckSize(label)
    ELSE LET prepped == NamePrep(label)
         IN  IF ~prepped.ok THEN prepped
             ELSE IF IsAscii(prepped.val) THEN CheckSize(prepped.val)
             ELSE IF StartsWith(prepped.val, ACE_PREFIX) THEN Err("UnicodeError")
             ELSE CheckSize(ACE_PREFIX \o PunycodeEncode(prepped.val))

\* ToUnicode of encodings/idna.py on an ASCII label that starts with "xn--"
ToUnicode(label) ==
    LET result == PunycodeDecode(SubSeq(label, Len(ACE_PREFIX) + 1, Len(label)))
    IN  IF ~result.ok THEN result
        ELSE LET label2 == ToASCII(result.val)
             IN  IF ~label2.ok THEN label2
                 ELSE IF Lower(label) # label2.val THEN Err("UnicodeError")
                 ELSE result

\* tld.encode("ascii").decode("idna") for a label without a dot
IdnaDecode(tld) ==
    IF ~IsAscii(tld) THEN Err("UnicodeEncodeError") ELSE ToUnicode(tld)

(***************************************************************************)
(* The normalisation loop of tlds_update (lines 117-135).                  *)
(***************************************************************************)
\* Mutant of ProcessLine: a label already in the list is not appended again.
ProcessLineDedup(line, tlds) ==
    LET tld == Lower(Strip(line))
        seen(x) == \E i \in 1..Len(tlds) : tlds[i] = x
    IN  IF tld = <<>> \/ StartsWith(tld, COMMENT_MARK) \/ seen(tld) THEN Ok(tlds)
        ELSE IF StartsWith(tld, ACE_PREFIX)
             THEN LET dec == IdnaDecode(tld)
                  IN  IF dec.ok THEN Ok(tlds \o <<tld, dec.val>>) ELSE dec
        ELSE Ok(Append(tlds, tld))

\* Mutant of ProcessLine: the comment test is made on the raw line, before
\* it is trimmed and lowercased.
ProcessLineRawComment(line, tlds) ==
    LET tld == Lower(Strip(line))
    IN  IF tld = <<>> \/ StartsWith(line, COMMENT_MARK) THEN Ok(tlds)
        ELSE IF StartsWith(tld, ACE_PREFIX)
             THEN LET dec == IdnaDecode(tld)
                  IN  IF dec.ok THEN Ok(tlds \o <<tld, dec.val>>) ELSE dec
        ELSE Ok(Append(tlds, tld))

\* Mutant of ProcessLine: a label that cannot be decoded is skipped and the
\* loop goes on.
ProcessLineSkipBad(line, tlds) ==
    LET tld == Lower(Strip(line))
    IN  IF tld = <<>> \/ StartsWith(tld, COMMENT_MARK) THEN Ok(tlds)
        ELSE IF StartsWith(tld, ACE_PREFIX)
             THEN LET dec == IdnaDecode(tld)
                  IN  IF dec.ok THEN Ok(tlds \o <<tld, dec.val>>) ELSE Ok(tlds)
        ELSE Ok(Append(tlds, tld))

\* One pass of the loop body on the raw line, tlds being the list so far.
ProcessLine(line, tlds) ==
    LET tld == Lower(Strip(line))
    IN  IF tld = <<>> \/ StartsWith(tld, COMMENT_MARK) THEN Ok(tlds)
        ELSE IF StartsWith(tld, ACE_PREFIX)
             THEN LET dec == IdnaDecode(tld)
                  IN  IF dec.ok THEN Ok(tlds \o <<tld, dec.val>>) ELSE dec
        ELSE Ok(Append(tlds, tld))

RECURSIVE ProcessLines(_, _, _)
ProcessLines(lines, k, tlds) ==
    IF k > Len(lines) THEN Ok(tlds)
    ELSE LET r == ProcessLine(lines[k], tlds)
         IN  IF r.ok THEN ProcessLines(lines, k + 1, r.val) ELSE r

\* The list the loop builds from the response text, or the exception that
\* ends it.
Process(text) == ProcessLines(SplitLines(text), 1, <<>>)

(***************************************************************************)
(* The cache file (TLDS_LIST) and the text-mode reads and writes on it.    *)
(***************************************************************************)
Absent == [exists |-> FALSE, data |-> <<>>]
FileOf(data) == [exists |-> TRUE, data |-> data]

\* Iterating a file opened in text mode (line 94, "for tld in f"): the lines
\* end at "\n", "\r" or "\r\n", each of which is handed over as "\n"; the
\* last line has no "\n" when the file does not end with one.
RECURSIVE FileIter(_, _, _, _)
FileIter(data, i, cur, acc) ==
    IF i > Len(data) THEN (IF cur = <<>> THEN acc ELSE Append(acc, cur))
    ELSE IF data[i] = 13 /\ i < Len(data) /\ data[i + 1] = 10
         THEN FileIter(data, i + 2, <<>>, Append(acc, cur \o NL))
    ELSE IF data[i] \in {10, 13}
         THEN FileIter(data, i + 1, <<>>, Append(acc, cur \o NL))
    ELSE FileIter(data, i + 1, Append(cur, data[i]), acc)

\* tld.rstrip("\n")
RECURSIVE RStripNL(_)
RStripNL(s) ==
    IF s # <<>> /\ <<s[Len(s)]>> = NL THEN RStripNL(SubSeq(s, 1, Len(s) - 1)) ELSE s

\* Mutant of ReadTlds: the lines are returned as the file hands them over,
\* newline included.
ReadTldsKeepEnds(data) == FileIter(data, 1, <<>>, <<>>)

\* The list tlds_load returns from the file's content (line 94).
ReadTlds(data) ==
    LET lines == FileIter(data, 1, <<>>, <<>>)
    IN  [i \in 1..Len(lines) |-> RStripNL(lines[i])]

\* f.write(text) at the offset pos of a file that holds data: the text
\* replaces what is there and extends the file past its end; when the file
\* ends before pos (another writer has emptied it since), the bytes between
\* its end and pos read as zeros.
WriteAt(data, pos, text) ==
    LET held == IF pos > Len(data)
                THEN data \o [i \in 1..(pos - Len(data)) |-> 0]
                ELSE data
    IN  SubSeq(held, 1, pos) \o text \o SubSeq(held, pos + Len(text) + 1, Len(held))

(***************************************************************************)
(* The output functions (lines 14, 26-74) and str.format.                  *)
(***************************************************************************)
\* __module_name__: "Image downloader"
MODULE_NAME ==
    <<73, 109, 97, 103, 101, 32, 100, 111, 119, 110, 108, 111, 97, 100,
      101, 114>>

\* "\017[\00302{addon}\017] {message}"
FMT_DEFAULT_MESSAGE ==
    <<15, 91, 3, 48, 50, 123, 97, 100, 100, 111, 110, 125, 15, 93, 32, 123,
      109, 101, 115, 115, 97, 103, 101, 125>>

\* "\017[\00302{addon}\017] \002\00304ERROR:\017 {message}"
FMT_DEFAULT_ERROR ==
    <<15, 91, 3, 48, 50, 123, 97, 100, 100, 111, 110, 125, 15, 93, 32, 2,
      3, 48, 52, 69, 82, 82, 79, 82, 58, 15, 32, 123, 109, 101, 115, 115,
      97, 103, 101, 125>>

\* The exceptions of str.format: the class, type(x).__name__ and str(x).
\* KeyError: "'" key "'"
KeyError(key) ==
    [name |-> "KeyError", type |-> <<75, 101, 121, 69, 114, 114, 111, 114>>,
     str |-> <<39>> \o key \o <<39>>]

\* IndexError: "string index out of range"
StringIndexError ==
    [name |-> "IndexError", type |-> <<73, 110, 100, 101, 120, 69, 114, 114, 111, 114>>,
     str |-> <<115, 116, 114, 105, 110, 103, 32, 105, 110, 100, 101, 120, 32, 111,
               117, 116, 32, 111, 102, 32, 114, 97, 110, 103, 101>>]

\* IndexError: "Replacement index " n " out of range for positional args tuple"
ArgsIndexError(n) ==
    [name |-> "IndexError", type |-> <<73, 110, 100, 101, 120, 69, 114, 114, 111, 114>>,
     str |-> <<82, 101, 112, 108, 97, 99, 101, 109, 101, 110, 116, 32, 105, 110,
               100, 101, 120, 32>> \o n \o
             <<32, 111, 117, 116, 32, 111, 102, 32, 114, 97, 110, 103, 101, 32, 102,
               111, 114, 32, 112, 111, 115, 105, 116, 105, 111, 110, 97, 108, 32,
               97, 114, 103, 115, 32, 116, 117, 112, 108, 101>>]

\* TypeError: "string indices must be integers, not 'str'"
StringIndexTypeError ==
    [name |-> "TypeError", type |-> <<84, 121, 112, 101, 69, 114, 114, 111, 114>>,
     str |-> <<115, 116, 114, 105, 110, 103, 32, 105, 110, 100, 105, 99, 101, 115,
               32, 109, 117, 115, 116, 32, 98, 101, 32, 105, 110, 116, 101, 103,
               101, 114, 115, 44, 32, 110, 111, 116, 32, 39, 115, 116, 114, 39>>]

\* ValueError: "Single '" brace "' encountered in format string"
SingleBraceError(brace) ==
    [name |-> "ValueError", type |-> <<86, 97, 108, 117, 101, 69, 114, 114, 111, 114>>,
     str |-> <<83, 105, 110, 103, 108, 101, 32, 39, brace, 39, 32, 101, 110, 99, 111,
               117, 110, 116, 101, 114, 101, 100, 32, 105, 110, 32, 102, 111, 114,
               109, 97, 116, 32, 115, 116, 114, 105, 110, 103>>]

\* ValueError: "expected '}' before end of string"
UnclosedFieldError ==
    [name |-> "ValueError", type |-> <<86, 97, 108, 117, 101, 69, 114, 114, 111, 114>>,
     str |-> <<101, 120, 112, 101, 99, 116, 101, 100, 32, 39, 125, 39, 32, 98, 101,
               102, 111, 114, 101, 32, 101, 110, 100, 32, 111, 102, 32, 115, 116,
               114, 105, 110, 103>>]

\* The position of the first x in s at or after i, 0 when there is none.
RECURSIVE Find(_, _, _)
Find(s, x, i) ==
    IF i > Len(s) THEN 0 ELSE IF s[i] = x THEN i ELSE Find(s, x, i + 1)

IsDigits(s) == s # <<>> /\ \A i \in 1..Len(s) : s[i] \in 48..57

RECURSIVE DigitsValue(_)
DigitsValue(s) ==
    IF s = <<>> THEN 0
    ELSE 10 * DigitsValue(SubSeq(s, 1, Len(s) - 1)) + (s[Len(s)] - 48)

\* What a replacement field "{name}" or "{name[index]}" stands for, given
\* the keyword arguments addon and message: the argument, or one character
\* of it, or the exception.  (The formats of the model hold no ".", "!" or
\* ":" and no field within a field.)
FieldValue(field, addon, message) ==
    LET b == Find(field, 91, 1)
        name == IF b = 0 THEN field ELSE SubSeq(field, 1, b - 1)
        index == IF b = 0 THEN <<>> ELSE SubSeq(field, b + 1, Len(field) - 1)
        arg == IF name = <<97, 100, 100, 111, 110>> THEN Ok(addon)
               ELSE IF name = <<109, 101, 115, 115, 97, 103, 101>> THEN Ok(message)
               ELSE IF name = <<>> THEN Err(ArgsIndexError(<<48>>))
               ELSE IF IsDigits(name) THEN Err(ArgsIndexError(name))
               ELSE Err(KeyError(name))
    IN  IF ~arg.ok \/ b = 0 THEN arg
        ELSE IF ~IsDigits(index) THEN Err(StringIndexTypeError)
        ELSE IF DigitsValue(index) < Len(arg.val)
             THEN Ok(<<arg.val[DigitsValue(index) + 1]>>)
        ELSE Err(StringIndexError)

\* fmt.format(addon=addon, message=message) from position i on, acc being
\* the text so far: "{{" and "}}" stand for a brace, "{...}" is a field, and
\* the first field or brace that is wrong ends it with its exception.
RECURSIVE FormatFrom(_, _, _, _, _)
FormatFrom(fmt, i, addon, message, acc) ==
    IF i > Len(fmt) THEN Ok(acc)
    ELSE IF fmt[i] = 123
         THEN IF i = Len(fmt) THEN Err(SingleBraceError(123))
              ELSE IF fmt[i + 1] = 123
                   THEN FormatFrom(fmt, i + 2, addon, message, Append(acc, 123))
              ELSE LET close == Find(fmt, 125, i + 1)
                       val == FieldValue(SubSeq(fmt, i + 1, close - 1), addon, message)
                   IN  IF close = 0 THEN Err(UnclosedFieldError)
                       ELSE IF val.ok
                            THEN FormatFrom(fmt, close + 1, addon, message, acc \o val.val)
                       ELSE val
    ELSE IF fmt[i] = 125
         THEN IF i < Len(fmt) /\ fmt[i + 1] = 125
              THEN FormatFrom(fmt, i + 2, addon, message, Append(acc, 125))
              ELSE Err(SingleBraceError(125))
    ELSE FormatFrom(fmt, i + 1, addon, message, Append(acc, fmt[i]))

Format(fmt, addon, message) == FormatFrom(fmt, 1, addon, message, <<>>)

\* The words, with a space between them: print(*objects, sep=" ", end="")
\* of line 49, and the command line from a word to its end.
RECURSIVE JoinSp(_)
JoinSp(words) ==
    IF words = <<>> THEN <<>>
    ELSE IF Len(words) = 1 THEN words[1]
    ELSE words[1] \o <<32>> \o JoinSp(Tail(words))

\* Lines 32-50: what _message_impl prints for the objects with the format
\* fmt, or the exception of fmt.format.
message_impl(objects, fmt) == Format(fmt, MODULE_NAME, JoinSp(objects))

(***************************************************************************)
(* The inputs: the registry documents, the responses of the server, the    *)
(* errors of the network and of the file system.                           *)
(***************************************************************************)
\* Raw lines of a registry document:
\*   ""  "#V"  " #V"  " CO<tab>"  "io<cr>"  "XN--4CA" (decodes to U+00E4)
\*   "xn--#-0fa" (decodes to "#" U+00E4)  "xn--zz" (does not decode)
LineSet ==
    { <<>>,
      <<35, 86>>,
      <<32, 35, 86>>,
      <<32, 67, 79, 9>>,
      <<105, 111, 13>>,
      <<88, 78, 45, 45, 52, 67, 65>>,
      <<120, 110, 45, 45, 35, 45, 48, 102, 97>>,
      <<120, 110, 45, 45, 122, 122>> }

RECURSIVE SeqsUpTo(_, _)
SeqsUpTo(S, n) ==
    IF n = 0 THEN {<<>>}
    ELSE LET shorter == SeqsUpTo(S, n - 1)
         IN  shorter \cup {Append(q, x) : q \in shorter, x \in S}

\* A document is its lines, each followed by "\n".
DocOf(lines) == Concat([i \in 1..Len(lines) |-> lines[i] \o NL])

Docs == {DocOf(lines) : lines \in SeqsUpTo(LineSet, MaxLines)}

\* The body of a response that is not a 200: "<p>"
OtherBody == <<60, 112, 62, 10>>

\* What requests.get returns: a 200 with any document, or another status
\* (1xx, 2xx, 3xx, 4xx, 5xx) with the other body.
Responses ==
    {[status |-> 200, text |-> d] : d \in Docs}
        \cup {[status |-> st, text |-> OtherBody] : st \in {101, 204, 304, 404, 500}}

NoResponse == [status |-> 0, text |-> <<>>]

\* What requests.get raises instead (timeout=3 of line 112 among them).
NetworkErrors == {"ConnectionError", "Timeout"}

\* What open() or the read raises on a file that exists.
ReadErrors == {"PermissionError", "UnicodeDecodeError"}

\* What open(TLDS_LIST, "w") raises, and what f.write raises.
OpenErrors == {"PermissionError"}
WriteErrors == {"OSError"}

\* The cache file before the first call: absent, empty, "co\nio\n", or
\* "co\r\nio\nde" (edited by hand: a CRLF, no final newline).
InitFiles ==
    { Absent,
      FileOf(<<>>),
      FileOf(<<99, 111, 10, 105, 111, 10>>),
      FileOf(<<99, 111, 13, 10, 105, 111, 10, 100, 101>>) }

(***************************************************************************)
(* State.                                                                  *)
(***************************************************************************)
\* The callers of tlds_load and tlds_update.  The program is single-threaded:
\* its calls come one after the other from SeqCallers, and a call runs to
\* its end before the next one starts (Spec).
Callers == {1, 2}
SeqCallers == {1}

VARIABLES
    file,          \* the cache file: [exists, data]
    call,          \* per caller, the state of its call (see Idle)
    FMT_MESSAGE,   \* the format of the messages (line 29)
    FMT_ERROR,     \* the format of the error messages (line 30)
    cmd            \* the last control command and what it did (see NoCommand)

vars == <<file, call, FMT_MESSAGE, FMT_ERROR, cmd>>

\* pc       where the call is: "idle", "load_open", "fetch", "status",
\*          "normalize", "open_w", "write", "done", "fail"
\* entry    the function the caller called: "load" or "update" ("" when idle)
\* resp     r, the response of line 112
\* tlds     the list of line 117
\* widx     how many labels the loop of line 139 has written
\* wpos     the offset of f in the file
\* result   the list returned (pc = "done")
\* err      the exception that left the call (pc = "fail")
\* failedAt the pc at which that exception arose
\* reported the exceptions error() has printed (line 146)
\* fetches  how many times requests.get was called
\* opens    how many times the file was opened for writing
\* file0    the cache file when the call started
Idle ==
    [pc |-> "idle", entry |-> "", resp |-> NoResponse, tlds |-> <<>>, widx |-> 0,
     wpos |-> 0, result |-> <<>>, err |-> "", failedAt |-> "", reported |-> <<>>,
     fetches |-> 0, opens |-> 0, file0 |-> Absent]

\* word     the words of the command line (<<>>: no command yet)
\* msg0     FMT_MESSAGE when the handler was entered
\* err0     FMT_ERROR when the handler was entered
\* printed  what the handler printed, in order: [prnt, text], text being a
\*          line printed by message() or error(), prnt the name of the help
\*          text handed to hexchat.prnt ("" for a printed line)
\* raised   the exception that left the handler ("" when it returned)
\* ret      what the handler returned ("EAT_ALL", "" when it raised)
NoCommand ==
    [word |-> <<>>, msg0 |-> FMT_DEFAULT_MESSAGE, err0 |-> FMT_DEFAULT_ERROR,
     printed |-> <<>>, raised |-> "", ret |-> ""]

\* The plugin is loaded (lines 29-30, 332), the cache file is what it is.
Init ==
    /\ file \in InitFiles
    /\ call = [c \in Callers |-> Idle]
    /\ FMT_MESSAGE = FMT_DEFAULT_MESSAGE
    /\ FMT_ERROR = FMT_DEFAULT_ERROR
    /\ cmd = NoCommand

\* call' when caller c's record becomes r; a step of tlds_load or
\* tlds_update assigns no format and is no command.
Becomes(c, r) ==
    /\ call' = [call EXCEPT ![c] = r]
    /\ UNCHANGED <<FMT_MESSAGE, FMT_ERROR, cmd>>

\* The except clause of tlds_update (lines 145-147): error() prints the
\* exception, raise hands it to the caller.
Raised(rec, x) ==
    [rec EXCEPT !.reported = Append(@, x), !.err = x, !.failedAt = rec.pc,
                !.pc = "fail"]

\* An exception that leaves tlds_load (lines 91-96 catch FileNotFoundError
\* only, and print nothing).
Propagated(rec, x) == [rec EXCEPT !.err = x, !.failedAt = rec.pc, !.pc = "fail"]

(***************************************************************************)
(* tlds_load (lines 80-96).                                                *)
(***************************************************************************)
\* The caller calls tlds_load().
CallLoad(c) ==
    /\ \A d \in Callers : call[d].pc = "idle"
    /\ Becomes(c, [Idle EXCEPT !.pc = "load_open", !.entry = "load", !.file0 = file])
    /\ UNCHANGED file

\* Mutant of LoadOpen: a missing file gives an empty list, with no update.
LoadOpenNoUpdate(c) ==
    /\ call[c].pc = "load_open"
    /\ UNCHANGED file
    /\ IF ~file.exists
       THEN Becomes(c, [call[c] EXCEPT !.pc = "done", !.result = <<>>])
       ELSE \/ Becomes(c, [call[c] EXCEPT !.pc = "done", !.result = ReadTlds(file.data)])
            \/ \E x \in ReadErrors : Becomes(c, Propagated(call[c], x))

\* Mutant of LoadOpen: every failure of the read goes on to tlds_update(),
\* not FileNotFoundError alone.
LoadOpenCatchAll(c) ==
    /\ call[c].pc = "load_open"
    /\ UNCHANGED file
    /\ IF ~file.exists
       THEN Becomes(c, [call[c] EXCEPT !.pc = "fetch"])
       ELSE \/ Becomes(c, [call[c] EXCEPT !.pc = "done", !.result = ReadTlds(file.data)])
            \/ Becomes(c, [call[c] EXCEPT !.pc = "fetch"])

\* Mutant of LoadOpen: a file that cannot be read is removed.
LoadOpenDropUnreadable(c) ==
    /\ call[c].pc = "load_open"
    /\ IF ~file.exists
       THEN Becomes(c, [call[c] EXCEPT !.pc = "fetch"]) /\ UNCHANGED file
       ELSE \/ /\ Becomes(c, [call[c] EXCEPT !.pc = "done",
                                              !.result = ReadTlds(file.data)])
               /\ UNCHANGED file
            \/ /\ \E x \in ReadErrors : Becomes(c, Propagated(call[c], x))
               /\ file' = Absent

\* Lines 92-96: open the file and read it; FileNotFoundError goes on to
\* tlds_update(), any other exception leaves the function.
LoadOpen(c) ==
    /\ call[c].pc = "load_open"
    /\ UNCHANGED file
    /\ IF ~file.exists
       THEN Becomes(c, [call[c] EXCEPT !.pc = "fetch"])
       ELSE \/ Becomes(c, [call[c] EXCEPT !.pc = "done", !.result = ReadTlds(file.data)])
            \/ \E x \in ReadErrors : Becomes(c, Propagated(call[c], x))

(***************************************************************************)
(* tlds_update (lines 98-147).                                             *)
(***************************************************************************)
\* The caller calls tlds_update().
CallUpdate(c) ==
    /\ \A d \in Callers : call[d].pc = "idle"
    /\ Becomes(c, [Idle EXCEPT !.pc = "fetch", !.entry = "update", !.file0 = file])
    /\ UNCHANGED file

\* Mutant of Fetch: the file is opened for writing before the download.
FetchAfterOpen(c) ==
    /\ call[c].pc = "fetch"
    /\ file' = FileOf(<<>>)
    /\ \/ \E r \in Responses :
              Becomes(c, [call[c] EXCEPT !.fetches = @ + 1, !.resp = r, !.pc = "status"])
       \/ \E x \in NetworkErrors :
              Becomes(c, Raised([call[c] EXCEPT !.fetches = @ + 1], x))

\* Mutant of Fetch: a request that fails is made again, three times at most.
FetchRetry(c) ==
    /\ call[c].pc = "fetch"
    /\ UNCHANGED file
    /\ LET rec == [call[c] EXCEPT !.fetches = @ + 1]
       IN  \/ \E r \in Responses : Becomes(c, [rec EXCEPT !.resp = r, !.pc = "status"])
           \/ \E x \in NetworkErrors :
                  IF rec.fetches < 3 THEN Becomes(c, rec) ELSE Becomes(c, Raised(rec, x))

\* Line 112: requests.get(TLDS_LIST_URL, timeout=3)
Fetch(c) ==
    /\ call[c].pc = "fetch"
    /\ UNCHANGED file
    /\ LET rec == [call[c] EXCEPT !.fetches = @ + 1]
       IN  \/ \E r \in Responses : Becomes(c, [rec EXCEPT !.resp = r, !.pc = "status"])
           \/ \E x \in NetworkErrors : Becomes(c, Raised(rec, x))

\* Response.raise_for_status(): HTTPError for a 4xx or a 5xx status.
IsHttpError(status) == 400 <= status /\ status < 600

\* Line 113: r.raise_for_status()
RaiseForStatus(c) ==
    /\ call[c].pc = "status"
    /\ UNCHANGED file
    /\ IF IsHttpError(call[c].resp.status)
       THEN Becomes(c, Raised(call[c], "HTTPError"))
       ELSE Becomes(c, [call[c] EXCEPT !.pc = "normalize"])

\* The call after the loop of lines 117-135 has ended with the outcome r
Normalised(rec, r) ==
    IF r.ok THEN [rec EXCEPT !.tlds = r.val, !.pc = "open_w"] ELSE Raised(rec, r.err)

\* Lines 117-135: the normalisation loop over r.text
Normalize(c) ==
    /\ call[c].pc = "normalize"
    /\ UNCHANGED file
    /\ Becomes(c, Normalised(call[c], Process(call[c].resp.text)))

\* Mutant of OpenWrite: the file is opened with "a", which keeps its content.
OpenAppend(c) ==
    /\ call[c].pc = "open_w"
    /\ \/ /\ file' = FileOf(file.data)
          /\ Becomes(c, [call[c] EXCEPT !.opens = @ + 1, !.wpos = Len(file.data),
                                         !.widx = 0, !.pc = "write"])
       \/ /\ \E x \in OpenErrors :
                 Becomes(c, Raised([call[c] EXCEPT !.opens = @ + 1], x))
          /\ UNCHANGED file

\* Line 138: open(TLDS_LIST, "w") creates the file or empties it
OpenWrite(c) ==
    /\ call[c].pc = "open_w"
    /\ LET rec == [call[c] EXCEPT !.opens = @ + 1]
       IN  \/ /\ file' = FileOf(<<>>)
              /\ Becomes(c, [rec EXCEPT !.wpos = 0, !.widx = 0, !.pc = "write"])
           \/ /\ \E x \in OpenErrors : Becomes(c, Raised(rec, x))
              /\ UNCHANGED file

\* Mutant of WriteLabel: a write that fails puts the file back as it was
\* when the call started.
WriteLabelRollback(c) ==
    /\ call[c].pc = "write"
    /\ call[c].widx < Len(call[c].tlds)
    /\ \/ LET text == call[c].tlds[call[c].widx + 1] \o NL
          IN  /\ file' = FileOf(WriteAt(file.data, call[c].wpos, text))
              /\ Becomes(c, [call[c] EXCEPT !.widx = @ + 1, !.wpos = @ + Len(text)])
       \/ /\ \E x \in WriteErrors : Becomes(c, Raised(call[c], x))
          /\ file' = call[c].file0

\* Lines 139-141: f.write(tld); f.write("\n") for the next label
WriteLabel(c) ==
    /\ call[c].pc = "write"
    /\ call[c].widx < Len(call[c].tlds)
    /\ \/ LET text == call[c].tlds[call[c].widx + 1] \o NL
          IN  /\ file' = FileOf(WriteAt(file.data, call[c].wpos, text))
              /\ Becomes(c, [call[c] EXCEPT !.widx = @ + 1, !.wpos = @ + Len(text)])
       \/ /\ \E x \in WriteErrors : Becomes(c, Raised(call[c], x))
          /\ UNCHANGED file

\* Line 144: the loop is over, the file is closed, return tlds
Return(c) ==
    /\ call[c].pc = "write"
    /\ call[c].widx = Len(call[c].tlds)
    /\ Becomes(c, [call[c] EXCEPT !.result = call[c].tlds, !.pc = "done"])
    /\ UNCHANGED file

\* The caller has the list or the exception; it may call again.
Finish(c) ==
    /\ call[c].pc \in {"done", "fail"}
    /\ Becomes(c, Idle)
    /\ UNCHANGED file

(***************************************************************************)
(* The control command (lines 150-233) and its help (lines 288-330).       *)
(* word[i] of the code is word[i + 1] here.                                *)
(***************************************************************************)
\* "IMGDLER"
CMD_NAME == <<73, 77, 71, 68, 76, 69, 82>>

\* "sample message"
SAMPLE_MESSAGE ==
    <<115, 97, 109, 112, 108, 101, 32, 109, 101, 115, 115, 97, 103, 101>>

\* The names of the control functions: "help", "--help", "-h"; "msgfmt";
\* "errfmt".
HelpFunctions ==
    {<<104, 101, 108, 112>>, <<45, 45, 104, 101, 108, 112>>, <<45, 104>>}
MSGFMT == <<109, 115, 103, 102, 109, 116>>
ERRFMT == <<101, 114, 114, 102, 109, 116>>

\* None, for a word or a list of words that is not there.
None == <<>>

\* str.casefold(), on the ASCII words of the model.
CaseFold(s) == Lower(s)

\* word_eol[i]: the command line from word[i] to its end.
WordEol(word, i) == JoinSp(SubSeq(word, i + 1, Len(word)))

\* str(args) of a list of words: "['a', 'b']"
RECURSIVE Quoted(_)
Quoted(words) ==
    IF words = <<>> THEN <<>>
    ELSE <<39>> \o words[1] \o <<39>>
             \o (IF Len(words) > 1 THEN <<44, 32>> \o Quoted(Tail(words)) ELSE <<>>)

ListRepr(words) == <<91>> \o Quoted(words) \o <<93>>

\* What a handler has printed so far, and the exception that ended it.
NoOutput == [printed |-> <<>>, raised |-> ""]

\* print(...) of line 50, r being the outcome of fmt.format: the line is
\* printed, or the exception leaves the function.
Printed(out, r) ==
    IF out.raised # "" THEN out
    ELSE IF r.ok THEN [out EXCEPT !.printed = Append(@, [prnt |-> "", text |-> r.val])]
    ELSE [out EXCEPT !.raised = r.err.name]

\* context.prnt(text) of one of the help texts.
Prnt(out, help) ==
    IF out.raised # "" THEN out
    ELSE [out EXCEPT !.printed = Append(@, [prnt |-> help, text |-> <<>>])]

\* Lines 52-62 and 64-74: message(*objects) and error(*objects), the
\* format being FMT_MESSAGE or FMT_ERROR at the time of the call.
message(out, objects, fmt) == Printed(out, message_impl(objects, fmt))
error(out, objects, fmt) == Printed(out, message_impl(objects, fmt))

\* "unexpected arguments:" and "unrecognized control function:"
UNEXPECTED ==
    <<117, 110, 101, 120, 112, 101, 99, 116, 101, 100, 32, 97, 114, 103,
      117, 109, 101, 110, 116, 115, 58>>
UNRECOGNIZED ==
    <<117, 110, 114, 101, 99, 111, 103, 110, 105, 122, 101, 100, 32, 99,
      111, 110, 116, 114, 111, 108, 32, 102, 117, 110, 99, 116, 105, 111,
      110, 58>>

\* Lines 288-330: the help for a control function (None: the general help),
\* after a complaint about arguments that were not expected.
print_command_help(function, args, errfmt) ==
    LET warned == IF args # None
                  THEN error(NoOutput, <<UNEXPECTED, ListRepr(args)>>, errfmt)
                  ELSE NoOutput
    IN  IF function = None THEN Prnt(warned, "HELP_TEXT")
        ELSE IF CaseFold(function) = MSGFMT THEN Prnt(warned, "HELP_TEXT_MSGFMT")
        ELSE IF CaseFold(function) = ERRFMT THEN Prnt(warned, "HELP_TEXT_ERRFMT")
        ELSE error(NoOutput, <<UNRECOGNIZED, CaseFold(function)>>, errfmt)

\* Mutant of NewFormat: the format is the first word after the function.
NewFormatFirstWord(word, default) == IF Len(word) > 2 THEN word[3] ELSE default

\* Lines 201-204 and 218-221: the format to try.
NewFormat(word, default) == IF Len(word) > 2 THEN WordEol(word, 2) ELSE default

\* Mutant of Tried: the format that failed its trial is kept.
TriedKeepNew(old, new, report, trial) ==
    IF trial.ok THEN [fmt |-> new, out |-> Printed(NoOutput, trial)]
    ELSE [fmt |-> new,
          out |-> error(NoOutput, <<trial.err.type \o <<58>>, trial.err.str>>, report)]

\* Lines 206-211 and 223-228, trial being the outcome of the sample message
\* with the format new: the format stays and the sample is printed, or the
\* format old is back and error(type(x).__name__ + ":", x) is called, the
\* error format then being report.
Tried(old, new, report, trial) ==
    IF trial.ok THEN [fmt |-> new, out |-> Printed(NoOutput, trial)]
    ELSE [fmt |-> old,
          out |-> error(NoOutput, <<trial.err.type \o <<58>>, trial.err.str>>, report)]

\* Lines 199-211 and 216-228: save the format, assign the new one, try it.
TryFormat(old, new, report) ==
    Tried(old, new, report, message_impl(<<SAMPLE_MESSAGE>>, new))

\* Lines 186-232: the formats and the output when on_command is left, msg
\* and err being FMT_MESSAGE and FMT_ERROR when it is entered.  In the
\* branch of errfmt the error format that reports a failed trial is the one
\* just put back, err.
Handled(word, msg, err) ==
    LET function == IF Len(word) > 1 THEN CaseFold(word[2]) ELSE None
    IN  IF function = None \/ function \in HelpFunctions
        THEN [msg |-> msg, err |-> err,
              out |-> print_command_help(
                          IF Len(word) > 2 THEN word[3] ELSE None,
                          IF Len(word) > 3 THEN SubSeq(word, 4, Len(word)) ELSE None,
                          err)]
        ELSE IF function = MSGFMT
        THEN LET t == TryFormat(msg, NewFormat(word, FMT_DEFAULT_MESSAGE), err)
             IN  [msg |-> t.fmt, err |-> err, out |-> t.out]
        ELSE IF function = ERRFMT
        THEN LET t == TryFormat(err, NewFormat(word, FMT_DEFAULT_ERROR), err)
             IN  [msg |-> msg, err |-> t.fmt, out |-> t.out]
        ELSE [msg |-> msg, err |-> err,
              out |-> error(NoOutput, <<UNRECOGNIZED, function>>, err)]

\* on_command is left with the outcome h: it returns hexchat.EAT_ALL (line
\* 233) unless an exception leaves it.
Leaves(word, h) ==
    /\ FMT_MESSAGE' = h.msg
    /\ FMT_ERROR' = h.err
    /\ cmd' = [word |-> word, msg0 |-> FMT_MESSAGE, err0 |-> FMT_ERROR,
               printed |-> h.out.printed, raised |-> h.out.raised,
               ret |-> IF h.out.raised = "" THEN "EAT_ALL" ELSE ""]
    /\ UNCHANGED <<file, call>>

\* Lines 156-233: hexchat calls on_command(word, word_eol, userdata) for a
\* command line whose first word is the command hooked at line 332.
on_command(word) ==
    /\ word[1] = CMD_NAME
    /\ Leaves(word, Handled(word, FMT_MESSAGE, FMT_ERROR))

\* The words after the control function in the commands of the model:
\*   (none)   "<{addon}> {message}"   "{message}"   "{message[13]}"
\*   "{x}"   "<{addon}> {x}"   "{"   "{{addon}} {message[14]}"
FormatArgs ==
    { <<>>,
      <<<<60, 123, 97, 100, 100, 111, 110, 125, 62>>,
        <<123, 109, 101, 115, 115, 97, 103, 101, 125>>>>,
      <<<<123, 109, 101, 115, 115, 97, 103, 101, 125>>>>,
      <<<<123, 109, 101, 115, 115, 97, 103, 101, 91, 49, 51, 93, 125>>>>,
      <<<<123, 120, 125>>>>,
      <<<<60, 123, 97, 100, 100, 111, 110, 125, 62>>, <<123, 120, 125>>>>,
      <<<<123>>>>,
      <<<<123, 123, 97, 100, 100, 111, 110, 125, 125>>,
        <<123, 109, 101, 115, 115, 97, 103, 101, 91, 49, 52, 93, 125>>>> }

\* The command lines: "IMGDLER", "IMGDLER -H", "IMGDLER Help MSGFMT",
\* "IMGDLER help errfmt now", "IMGDLER help Bogus", "IMGDLER Bogus now",
\* and "IMGDLER MsgFmt" and "IMGDLER ERRFMT" followed by each of FormatArgs.
Commands ==
    { <<CMD_NAME>>,
      <<CMD_NAME, <<45, 72>>>>,
      <<CMD_NAME, <<72, 101, 108, 112>>, <<77, 83, 71, 70, 77, 84>>>>,
      <<CMD_NAME, <<104, 101, 108, 112>>, ERRFMT, <<110, 111, 119>>>>,
      <<CMD_NAME, <<104, 101, 108, 112>>, <<66, 111, 103, 117, 115>>>>,
      <<CMD_NAME, <<66, 111, 103, 117, 115>>, <<110, 111, 119>>>> }
        \cup {<<CMD_NAME, f>> \o a :
                  f \in {<<77, 115, 103, 70, 109, 116>>, <<69, 82, 82, 70, 77, 84>>},
                  a \in FormatArgs}

\* The TLD list as the program runs it: one call at a time.
Next ==
    \/ \E c \in SeqCallers : CallLoad(c)
    \/ \E c \in SeqCallers : LoadOpen(c)
    \/ \E c \in SeqCallers : CallUpdate(c)
    \/ \E c \in SeqCallers : Fetch(c)
    \/ \E c \in SeqCallers : RaiseForStatus(c)
    \/ \E c \in SeqCallers : Normalize(c)
    \/ \E c \in SeqCallers : OpenWrite(c)
    \/ \E c \in SeqCallers : WriteLabel(c)
    \/ \E c \in SeqCallers : Return(c)
    \/ \E c \in SeqCallers : Finish(c)

Spec == Init /\ [][Next]_vars

\* The program with its scheduling: a call in progress is run to its end
\* (the interpreter executes the next statement; open, read and write
\* return or raise, and requests.get gives up on a silent server after
\* timeout=3).  Nothing obliges the caller to call.  Each statement is
\* enabled at its own position only and leaves it, so that the fairness of
\* the statements one by one is that of the call; the fairness of the loop,
\* WF_vars(Normalize(c)), is written without ENABLED: the loop is enabled
\* exactly at "normalize", and a step of it leaves "normalize".
Fairness(c) ==
    /\ WF_vars(LoadOpen(c))
    /\ WF_vars(Fetch(c))
    /\ WF_vars(RaiseForStatus(c))
    /\ []<>(call[c].pc # "normalize")
    /\ WF_vars(OpenWrite(c))
    /\ WF_vars(WriteLabel(c))
    /\ WF_vars(Return(c))

FairSpec == Spec /\ \A c \in SeqCallers : Fairness(c)

\* Two callers, one call of tlds_update each, with nothing that keeps the
\* second from starting while the first is under way (two threads, or two
\* processes that share the cache file).
OverlapUpdate(c) ==
    /\ call[c].pc = "idle"
    /\ call[c].fetches = 0
    /\ Becomes(c, [Idle EXCEPT !.pc = "fetch", !.entry = "update", !.file0 = file])
    /\ UNCHANGED file

\* The responses of the overlapping calls: a 200 with " CO<tab>", with
\* "io<cr>" and " CO<tab>", or with "XN--4CA", and a 404.
RaceResponses ==
    { [status |-> 200, text |-> DocOf(<<<<32, 67, 79, 9>>>>)],
      [status |-> 200, text |-> DocOf(<<<<105, 111, 13>>, <<32, 67, 79, 9>>>>)],
      [status |-> 200, text |-> DocOf(<<<<88, 78, 45, 45, 52, 67, 65>>>>)],
      [status |-> 404, text |-> OtherBody] }

\* Line 112, for the overlapping calls.
RaceFetch(c) ==
    /\ call[c].pc = "fetch"
    /\ UNCHANGED file
    /\ LET rec == [call[c] EXCEPT !.fetches = @ + 1]
       IN  \/ \E r \in RaceResponses :
                  Becomes(c, [rec EXCEPT !.resp = r, !.pc = "status"])
           \/ \E x \in NetworkErrors : Becomes(c, Raised(rec, x))

RaceNext ==
    \/ \E c \in Callers : OverlapUpdate(c)
    \/ \E c \in Callers : RaceFetch(c)
    \/ \E c \in Callers : RaiseForStatus(c)
    \/ \E c \in Callers : Normalize(c)
    \/ \E c \in Callers : OpenWrite(c)
    \/ \E c \in Callers : WriteLabel(c)
    \/ \E c \in Callers : Return(c)

RaceSpec == Init /\ [][RaceNext]_vars

\* The control command alone: hexchat calls the handler with one command
\* line after the other; no call of tlds_load or tlds_update is made.
CmdNext == \E word \in Commands : on_command(word)

CmdSpec == Init /\ [][CmdNext]_vars

(***************************************************************************)
(* Properties.                                                             *)
(***************************************************************************)
\* The labels, one per line: each followed by "\n".
JoinNL(labels) == Concat([i \in 1..Len(labels) |-> labels[i] \o NL])

\* The steps of tlds_update before the file is opened for writing.
Upstream == {"fetch", "status", "normalize"}

Failed(c) == call[c].pc = "fail"
Done(c) == call[c].pc = "done"

\* C1: when the fetch (the request or its status check) or the normalisation
\* fails in tlds_update, the exception reaches the caller, the file was never
\* opened for writing, and the cache file is what it was when the call
\* started, so that a read gives the same list.
C1_UpstreamFailureKeepsCache ==
    \A c \in Callers :
        (Failed(c) /\ call[c].failedAt \in Upstream) =>
            /\ call[c].err \in NetworkErrors \cup {"HTTPError", "UnicodeError",
                                                  "UnicodeEncodeError"}
            /\ call[c].opens = 0
            /\ file = call[c].file0
            /\ ReadTlds(file.data) = ReadTlds(call[c].file0.data)

\* C1's case: the normalisation failed while a cache file with labels existed.
C1_Witness ==
    \E c \in Callers :
        /\ Failed(c)
        /\ call[c].failedAt = "normalize"
        /\ call[c].entry = "update"
        /\ call[c].file0.exists
        /\ Len(ReadTlds(call[c].file0.data)) >= 2
        /\ file = call[c].file0

\* "\r\n" and "\r" read as "\n" (the newline translation of a text file).
RECURSIVE Universal(_)
Universal(data) ==
    IF data = <<>> THEN <<>>
    ELSE IF Len(data) >= 2 /\ data[1] = 13 /\ data[2] = 10
         THEN NL \o Universal(SubSeq(data, 3, Len(data)))
    ELSE IF data[1] = 13 THEN NL \o Universal(Tail(data))
    ELSE <<data[1]>> \o Universal(Tail(data))

\* The text of a file, with a "\n" after its last line when it has none.
Terminated(text) ==
    IF text = <<>> \/ <<text[Len(text)]>> = NL THEN text ELSE text \o NL

\* C2: a tlds_load that finds the cache file and reads it returns the file's
\* lines without their newlines, in order (no returned label holds a
\* newline, and the labels with a newline after each are the file's text),
\* makes no request and leaves the file alone; so does every later one.
C2_CacheHit ==
    \A c \in Callers :
        (call[c].entry = "load" /\ call[c].file0.exists) =>
            /\ call[c].fetches = 0
            /\ call[c].opens = 0
            /\ file = call[c].file0
            /\ Done(c) =>
                /\ \A i \in 1..Len(call[c].result) :
                       \A k \in 1..Len(call[c].result[i]) :
                           call[c].result[i][k] \notin {10, 13}
                /\ JoinNL(call[c].result) = Terminated(Universal(file.data))

\* C2's case: a load has returned three labels from a file with a CRLF and no
\* final newline.
C2_Witness ==
    \E c \in Callers :
        /\ call[c].entry = "load"
        /\ Done(c)
        /\ call[c].file0.exists
        /\ \E i \in 1..Len(file.data) : file.data[i] = 13
        /\ Len(call[c].result) = 3
        /\ call[c].fetches = 0

\* C3: a tlds_load that finds no cache file makes exactly one request by the
\* time it ends, never more, and when it succeeds it returns the list the
\* loop built from that response, which is what the cache file now holds.
C3_CacheMiss ==
    \A c \in Callers :
        (call[c].entry = "load" /\ ~call[c].file0.exists) =>
            /\ call[c].fetches <= 1
            /\ (Done(c) \/ Failed(c)) => call[c].fetches = 1
            /\ Done(c) =>
                /\ Ok(call[c].result) = Process(call[c].resp.text)
                /\ file = FileOf(JoinNL(call[c].result))

\* C3's case: a load that found no file has returned a list with a decoded
\* label.
C3_Witness ==
    \E c \in Callers :
        /\ call[c].entry = "load"
        /\ ~call[c].file0.exists
        /\ Done(c)
        /\ Len(call[c].result) >= 2
        /\ call[c].fetches = 1
        /\ file.exists

\* C4: when tlds_update (called directly or by tlds_load) returns L, the cache
\* file holds the labels of L, one per line in order, and nothing else,
\* whatever it held before; reading it gives L.
C4_WriteThrough ==
    \A c \in Callers :
        (Done(c) /\ call[c].opens > 0) =>
            /\ file = FileOf(JoinNL(call[c].result))
            /\ ReadTlds(file.data) = call[c].result

\* C4's case: an update has returned a list shorter than the one the file
\* held before.
C4_Witness ==
    \E c \in Callers :
        /\ Done(c)
        /\ call[c].entry = "update"
        /\ call[c].file0.exists
        /\ Len(call[c].result) = 1
        /\ Len(ReadTlds(call[c].file0.data)) = 3
        /\ file # call[c].file0

Canon(line) == Lower(Strip(line))

\* A data line: neither empty nor a comment once trimmed and lowercased.
IsDataLine(line) == Canon(line) # <<>> /\ ~StartsWith(Canon(line), COMMENT_MARK)

\* A data line whose label starts with "xn--".
IsXnLine(line) == IsDataLine(line) /\ StartsWith(Canon(line), ACE_PREFIX)

\* How many labels the lines before line i account for: one per data line
\* and one more per "xn--" line.
LabelsBefore(lines, i) ==
    Cardinality({j \in 1..(i - 1) : IsDataLine(lines[j])})
        + Cardinality({j \in 1..(i - 1) : IsXnLine(lines[j])})

\* C6: the list the loop builds holds, in the order of the lines, nothing for
\* an empty or comment line, the trimmed lowercase line for any other, and
\* right after a label that starts with "xn--" its decoded form; its length
\* is the number of data lines plus the number of "xn--" lines, duplicates
\* included.
C6_Normalization ==
    \A c \in Callers :
        call[c].pc = "open_w" =>
            LET lines == SplitLines(call[c].resp.text)
                tlds == call[c].tlds
            IN  /\ Len(tlds) = LabelsBefore(lines, Len(lines) + 1)
                /\ \A i \in 1..Len(lines) :
                       IsDataLine(lines[i]) =>
                           /\ tlds[LabelsBefore(lines, i) + 1] = Canon(lines[i])
                           /\ IsXnLine(lines[i]) =>
                                  Ok(tlds[LabelsBefore(lines, i) + 2])
                                      = IdnaDecode(Canon(lines[i]))

\* C6's case: a document with a comment and a capital "XN--4CA" has given the
\* label and its decoded form.
C6_Witness ==
    \E c \in Callers :
        /\ call[c].pc = "open_w"
        /\ Len(SplitLines(call[c].resp.text)) = 2
        /\ ~IsDataLine(SplitLines(call[c].resp.text)[1])
        /\ call[c].tlds = <<Lower(<<88, 78, 45, 45, 52, 67, 65>>), <<228>>>>

\* A second pass of the loop over the list a first pass built, one label per
\* line, gives the same list.
SecondPassSame(tlds) == Process(JoinNL(tlds)) = Ok(tlds)

HasXnLabel(tlds) == \E i \in 1..Len(tlds) : StartsWith(tlds[i], ACE_PREFIX)

\* C7 as stated: the second pass gives the same list, punycode labels or not.
C7_Idempotent ==
    \A c \in Callers : call[c].pc = "open_w" => SecondPassSame(call[c].tlds)

\* C7, amended: the second pass gives the same list when the first pass's
\* list holds no label that starts with "xn--".
C7_IdempotentWithoutPunycode ==
    \A c \in Callers :
        (call[c].pc = "open_w" /\ ~HasXnLabel(call[c].tlds)) =>
            SecondPassSame(call[c].tlds)

\* C7's case: a first pass that trimmed and lowercased two lines, and whose
\* list the second pass leaves alone.
C7_Witness ==
    \E c \in Callers :
        /\ call[c].pc = "open_w"
        /\ Len(call[c].tlds) = 2
        /\ ~HasXnLabel(call[c].tlds)
        /\ JoinNL(call[c].tlds) # call[c].resp.text
        /\ SecondPassSame(call[c].tlds)

\* C8 as stated: whichever step of tlds_update fails, a cache file that held
\* labels when the call started is unchanged and the exception was reported.
C8_FailedUpdateKeepsCache ==
    \A c \in Callers :
        (Failed(c) /\ call[c].failedAt \in Upstream \cup {"open_w", "write"}
                /\ call[c].file0.exists /\ call[c].file0.data # <<>>) =>
            /\ file = call[c].file0
            /\ call[c].reported = <<call[c].err>>

\* C9 as stated: an exception that leaves tlds_load or tlds_update was
\* reported exactly once.
C9_ReportedOnce ==
    \A c \in Callers :
        /\ Len(call[c].reported) <= 1
        /\ Failed(c) => call[c].reported = <<call[c].err>>

\* C10 as stated: past the status check, a response whose status is not 2xx
\* has ended the call with HTTPError, no list and no write.
C10_Non2xxFails ==
    \A c \in Callers :
        (call[c].resp # NoResponse /\ call[c].pc # "status"
                /\ call[c].resp.status \notin 200..299) =>
            /\ Failed(c)
            /\ call[c].err = "HTTPError"
            /\ call[c].tlds = <<>>
            /\ call[c].opens = 0
            /\ file = call[c].file0

\* A line whose "xn--" label cannot be decoded.
IsBadXnLine(line) == IsXnLine(line) /\ ~IdnaDecode(Canon(line)).ok

HasBadXnLine(text) ==
    LET lines == SplitLines(text)
    IN  \E i \in 1..Len(lines) : IsBadXnLine(lines[i])

\* C11: the loop ends with an exception exactly when some line of the
\* document, at any position, holds an "xn--" label that cannot be decoded
\* (it has ended well only on documents with no such line, and documents
\* with one have made it fail); the call then ends with the decode error,
\* keeps and returns no label (those of the lines before the bad one
\* included), has not opened the file for writing and has left it as it was.
C11_DecodeFailureAborts ==
    \A c \in Callers :
        /\ call[c].pc = "open_w" => ~HasBadXnLine(call[c].resp.text)
        /\ (Failed(c) /\ call[c].failedAt = "normalize") =>
            /\ HasBadXnLine(call[c].resp.text)
            /\ call[c].err = "UnicodeError"
            /\ call[c].reported = <<"UnicodeError">>
            /\ call[c].tlds = <<>>
            /\ call[c].result = <<>>
            /\ call[c].opens = 0
            /\ file = call[c].file0

\* C11's case: the bad label is on the second line, after a line that gave a
\* label, and the cache file that existed is as it was.
C11_Witness ==
    \E c \in Callers :
        /\ Failed(c)
        /\ call[c].failedAt = "normalize"
        /\ Len(SplitLines(call[c].resp.text)) = 2
        /\ IsDataLine(SplitLines(call[c].resp.text)[1])
        /\ ~IsBadXnLine(SplitLines(call[c].resp.text)[1])
        /\ IsBadXnLine(SplitLines(call[c].resp.text)[2])
        /\ call[c].tlds = <<>>
        /\ call[c].file0.exists
        /\ file = call[c].file0

\* The steps of a call of tlds_load, as pairs of positions: the read attempt
\* (load_open), then the return, the failure, or the request (fetch, status),
\* the normalisation, the write (open_w, write), and the end.
LoadPath ==
    { <<"idle", "load_open">>,
      <<"load_open", "done">>, <<"load_open", "fetch">>, <<"load_open", "fail">>,
      <<"fetch", "status">>, <<"fetch", "fail">>,
      <<"status", "normalize">>, <<"status", "fail">>,
      <<"normalize", "open_w">>, <<"normalize", "fail">>,
      <<"open_w", "write">>, <<"open_w", "fail">>,
      <<"write", "write">>, <<"write", "done">>, <<"write", "fail">>,
      <<"done", "idle">>, <<"fail", "idle">> }

\* One step of a call of tlds_load goes along LoadPath; the only position
\* that is kept is the loop that writes the labels, which moves on by one
\* label; the request is made in the step that leaves "fetch" and in no
\* other, the file is opened in the step that leaves "open_w" and in no
\* other.
LoadPathStep ==
    \A c \in Callers :
        ((call[c].entry = "load" \/ call'[c].entry = "load") /\ call'[c] # call[c]) =>
            /\ <<call[c].pc, call'[c].pc>> \in LoadPath
            /\ (call[c].pc = "write" /\ call'[c].pc = "write") =>
                   /\ call'[c].widx = call[c].widx + 1
                   /\ call'[c].widx <= Len(call'[c].tlds)
            /\ call[c].pc \notin {"idle", "done", "fail"} =>
                   /\ call'[c].fetches
                          = call[c].fetches + (IF call[c].pc = "fetch" THEN 1 ELSE 0)
                   /\ call'[c].opens
                          = call[c].opens + (IF call[c].pc = "open_w" THEN 1 ELSE 0)

\* Within a call of tlds_load: at most one request, at most one opening of
\* the file for writing, and that one after the request.
LoadCounts ==
    \A c \in Callers :
        call[c].entry = "load" =>
            /\ call[c].fetches <= 1
            /\ call[c].opens <= call[c].fetches
            /\ call[c].pc \in {"status", "normalize", "open_w"} =>
                   call[c].fetches = 1 /\ call[c].opens = 0
            /\ call[c].pc = "write" => call[c].opens = 1
            /\ call[c].pc = "load_open" => call[c].fetches = 0

\* C12: every call of tlds_load goes along the path read attempt, then
\* return, or request, normalisation, write and return, or failure; it
\* makes at most one read attempt, one request and one write, in that order,
\* enters no step again, ends at its first failure, and does end, with the
\* list or with the exception.
C12_LoadPath ==
    /\ [][LoadPathStep]_vars
    /\ []LoadCounts
    /\ \A c \in SeqCallers :
           (call[c].pc = "load_open") ~> (call[c].pc \in {"done", "fail"})

\* C12's case: a call of tlds_load that found no file has gone the whole
\* path and returned after one request and one write of two labels.
C12_Witness ==
    \E c \in Callers :
        /\ call[c].entry = "load"
        /\ Done(c)
        /\ ~call[c].file0.exists
        /\ call[c].fetches = 1
        /\ call[c].opens = 1
        /\ call[c].widx = 2
        /\ call[c].wpos = Len(file.data)

\* The control function a command line names, in lower case.
FunctionOf(word) == IF Len(word) > 1 THEN CaseFold(word[2]) ELSE None

\* What is left of the command line after its first two words and the
\* space that follows each.
Remainder(word) ==
    SubSeq(JoinSp(word), Len(word[1]) + Len(word[2]) + 3, Len(JoinSp(word)))

\* The format formats the sample message of the trial.
PassesTrial(fmt) == Format(fmt, MODULE_NAME, SAMPLE_MESSAGE).ok

GivesFormat(word) == Len(word) > 2
TrialFails(word) == GivesFormat(word) /\ ~PassesTrial(Remainder(word))

\* C13: after MSGFMT (ERRFMT) with no format string the message (error)
\* format is the default, whatever it was; after MSGFMT (ERRFMT) with a
\* format string that formats the sample message it is the whole remainder
\* of the command line; the sample was printed with it and the handler
\* returned.
C13_SetsFormat ==
    /\ FunctionOf(cmd.word) = MSGFMT =>
        /\ ~GivesFormat(cmd.word) => FMT_MESSAGE = FMT_DEFAULT_MESSAGE
        /\ (GivesFormat(cmd.word) /\ PassesTrial(Remainder(cmd.word))) =>
               FMT_MESSAGE = Remainder(cmd.word)
        /\ ~TrialFails(cmd.word) =>
               /\ cmd.ret = "EAT_ALL"
               /\ Len(cmd.printed) = 1
               /\ Ok(cmd.printed[1].text)
                      = Format(FMT_MESSAGE, MODULE_NAME, SAMPLE_MESSAGE)
    /\ FunctionOf(cmd.word) = ERRFMT =>
        /\ ~GivesFormat(cmd.word) => FMT_ERROR = FMT_DEFAULT_ERROR
        /\ (GivesFormat(cmd.word) /\ PassesTrial(Remainder(cmd.word))) =>
               FMT_ERROR = Remainder(cmd.word)
        /\ ~TrialFails(cmd.word) =>
               /\ cmd.ret = "EAT_ALL"
               /\ Len(cmd.printed) = 1
               /\ Ok(cmd.printed[1].text)
                      = Format(FMT_ERROR, MODULE_NAME, SAMPLE_MESSAGE)

\* C13's case: ERRFMT with no format string has put the default back over
\* another error format, after a MSGFMT had set a message format of two
\* words.
C13_Witness ==
    /\ FunctionOf(cmd.word) = ERRFMT
    /\ ~GivesFormat(cmd.word)
    /\ cmd.err0 # FMT_DEFAULT_ERROR
    /\ FMT_ERROR = FMT_DEFAULT_ERROR
    /\ FMT_MESSAGE # FMT_DEFAULT_MESSAGE
    /\ \E i \in 1..Len(FMT_MESSAGE) : FMT_MESSAGE[i] = 32

\* What error(type(x).__name__ + ":", x) prints for the exception x of a
\* trial, with the error format fmt.
ReportOf(fmt, x) == Format(fmt, MODULE_NAME, x.type \o <<58, 32>> \o x.str)

\* The exception of the trial of a format.
TrialError(fmt) == Format(fmt, MODULE_NAME, SAMPLE_MESSAGE).err

\* C16 as stated: after MSGFMT (ERRFMT) with a format that fails its trial,
\* the message (error) format is what it was, the handler returned EAT_ALL
\* and printed the failure with the error format; MSGFMT never changes the
\* error format, nor ERRFMT the message format.
C16_FailedTrialKeepsFormat ==
    /\ FunctionOf(cmd.word) = MSGFMT => FMT_ERROR = cmd.err0
    /\ FunctionOf(cmd.word) = ERRFMT => FMT_MESSAGE = cmd.msg0
    /\ (FunctionOf(cmd.word) \in {MSGFMT, ERRFMT} /\ TrialFails(cmd.word)) =>
        /\ FMT_MESSAGE = cmd.msg0
        /\ FMT_ERROR = cmd.err0
        /\ cmd.ret = "EAT_ALL"
        /\ Len(cmd.printed) = 1
        /\ Ok(cmd.printed[1].text)
               = ReportOf(FMT_ERROR, TrialError(Remainder(cmd.word)))

\* The formats a command of the model can install: the remainders that
\* pass the trial.
Installable ==
    {Remainder(w) : w \in {v \in Commands : GivesFormat(v)
                                             /\ FunctionOf(v) \in {MSGFMT, ERRFMT}
                                             /\ PassesTrial(Remainder(v))}}

\* C17: whatever commands were given, the message format and the error
\* format are each the default or a format some command installed after it
\* had formatted the sample message, and a format that has just failed its
\* trial is not the current one.
C17_FormatsValid ==
    /\ FMT_MESSAGE \in {FMT_DEFAULT_MESSAGE} \cup Installable
    /\ FMT_ERROR \in {FMT_DEFAULT_ERROR} \cup Installable
    /\ PassesTrial(FMT_MESSAGE)
    /\ PassesTrial(FMT_ERROR)
    /\ (FunctionOf(cmd.word) = MSGFMT /\ TrialFails(cmd.word)) =>
           FMT_MESSAGE # Remainder(cmd.word)
    /\ (FunctionOf(cmd.word) = ERRFMT /\ TrialFails(cmd.word)) =>
           FMT_ERROR # Remainder(cmd.word)

\* C17's case: a MSGFMT whose format failed its trial has returned, and the
\* message format is the installed one it was before, not the default.
C17_Witness ==
    /\ FunctionOf(cmd.word) = MSGFMT
    /\ TrialFails(cmd.word)
    /\ cmd.ret = "EAT_ALL"
    /\ cmd.msg0 # FMT_DEFAULT_MESSAGE
    /\ FMT_MESSAGE = cmd.msg0
    /\ FMT_ERROR # FMT_DEFAULT_ERROR

\* The file after the labels were written one per line.
Written(labels) == JoinNL(labels)

\* Both overlapping calls have returned their lists.
BothReturned == \A c \in Callers : Done(c) /\ call[c].entry = "update"

Longest(a, b) == IF Len(a) >= Len(b) THEN Len(a) ELSE Len(b)
Shortest(a, b) == IF Len(a) <= Len(b) THEN Len(a) ELSE Len(b)

\* C14: tlds_update takes no lock and writes in place, so that when two
\* overlapping calls have both returned, the file is only known to be a
\* mix of what the two wrote: as long as one of the two texts at least, no
\* longer than the longer, each byte being the byte either call wrote at
\* that offset or a zero where an emptied file was written past its end.
\* (That it can be the text of neither list is C14_Witness.)
C14_RaceMixesWrites ==
    BothReturned =>
        LET one == Written(call[1].result)
            two == Written(call[2].result)
        IN  /\ file.exists
            /\ Len(file.data) >= Shortest(one, two)
            /\ Len(file.data) <= Longest(one, two)
            /\ \A i \in 1..Len(file.data) :
                   \/ i <= Len(one) /\ file.data[i] = one[i]
                   \/ i <= Len(two) /\ file.data[i] = two[i]
                   \/ file.data[i] = 0

\* C14's case: two overlapping calls have returned different lists, "co"
\* and "io", "co", and the file holds neither: it reads "co", "co" (the
\* second call wrote its two lines between the first call's opening of the
\* file and its write).
C14_Witness ==
    /\ BothReturned
    /\ call[1].result = <<<<99, 111>>>>
    /\ call[2].result = <<<<105, 111>>, <<99, 111>>>>
    /\ file.data = <<99, 111, 10, 99, 111, 10>>
    /\ \A c \in Callers :
           /\ file.data # Written(call[c].result)
           /\ ReadTlds(file.data) # call[c].result

\* The list p is the beginning of the list l, and shorter.
StrictPrefix(p, l) == Len(p) < Len(l) /\ p = SubSeq(l, 1, Len(p))

FrameStep ==
    /\ file' # file =>
           \E c \in Callers :
               /\ call[c].pc \in {"open_w", "write"}
               /\ call'[c].pc = "write"
               /\ call'[c].opens = 1
    /\ \A c \in Callers :
           (call[c].pc = "load_open" /\ ~file.exists /\ call'[c] # call[c]) =>
               call'[c].pc = "fetch" /\ call'[c].fetches = 0

\* A call that has not opened the file for writing has left it as it was:
\* so have a tlds_load that found the file, a tlds_load whose read failed,
\* and a tlds_update that failed before the write, which on a cache miss
\* leaves the file absent.
FrameInv ==
    \A c \in Callers :
        /\ (call[c].pc # "idle" /\ call[c].opens = 0) => file = call[c].file0
        /\ (call[c].entry = "load" /\ call[c].file0.exists) => call[c].opens = 0
        /\ (Failed(c) /\ call[c].failedAt \in Upstream \cup {"load_open"}) =>
               call[c].opens = 0
        /\ (Failed(c) /\ call[c].failedAt \in Upstream /\ ~call[c].file0.exists) =>
               ~file.exists

=============================================================================
